---- MODULE Spec2Model ----
(***************************************************************************)
(* A model of the plant pot's two programs.                                *)
(*                                                                         *)
(*   Raspberry Pi/plant_bot.py  - the Telegram bot: the /status and /water *)
(*       handlers that talk to the Arduino over one serial session, and    *)
(*       classify_image, the classifier behind /scan.                      *)
(*   predict_plant_tflite.py    - the diagnostic script: preprocessing by  *)
(*       dtype, temperature scaling, bias boost, renormalisation, top-5.   *)
(*                                                                         *)
(* Spec       is the bot's serial protocol (handlers, asyncio loop,        *)
(*            dispatcher, peripheral).                                     *)
(* SpecInfer  is one run of either inference path.                         *)
(***************************************************************************)
EXTENDS Integers, Sequences, FiniteSets, TLC

VARIABLES
    \* ---- plant_bot.py: serial protocol
    ser,        \* the module-level serial session (None, or an open Serial)
    updates,    \* Telegram updates received and not yet dispatched
    nrecv,      \* number of updates received so far
    tasks,      \* handler invocations, in dispatch order
    loop,       \* the handler the asyncio loop is running (0: none)
    inbuf,      \* the serial input buffer: bytes received from the Arduino
    pending,    \* commands the Arduino has received and not yet answered
    nresets,    \* number of reset_input_buffer calls so far
    serlog,     \* history of serial operations, <<handler, operation>>
    \* ---- inference (classify_image, predict_plant_tflite.py)
    prog,       \* which program runs: "scan", "diag" (or "none")
    ipc,        \* its position
    classes,    \* the label list
    args,       \* the diagnostic script's options
    input_dtype,\* the model's input tensor dtype
    img_dtype,  \* the dtype of the array handed to set_tensor
    raw_out,    \* the model's output vector as read by get_tensor
    pre_boost,  \* the vector as it entered the bias boost
    output,     \* the vector being post-processed
    top,        \* the ranked indices (top_idx / top5)
    best_idx,   \* np.argmax(output) of the diagnostic script
    err         \* the exception that ended the run ("none": no exception)

botvars == <<ser, updates, nrecv, tasks, loop, inbuf, pending, nresets, serlog>>
infvars == <<prog, ipc, classes, args, input_dtype, img_dtype, raw_out,
             pre_boost, output, top, best_idx, err>>
vars == <<botvars, infvars>>

-----------------------------------------------------------------------------
(* Bounds of the model.                                                    *)

\* Number of /status and /water requests in one behaviour.
MaxUpdates == 2

\* Number of classes of the model (the length of labels.txt).
NumClasses == 3

\* The model's outputs are the multiples of 1/Den from 0 to 1.
Den == 4

\* The epsilon added before the logarithm is 1e-9 in the source; the model
\* keeps it a positive rational below every non-zero output, 1/EpsDen.
EpsDen == 100

\* [-3:] in classify_image, [-5:] in the diagnostic script.
TopScan == 3
TopDiag == 5

\* The seconds the two handlers sleep before reading the reply.
WaitStatus == 1
WaitPump == 4

-----------------------------------------------------------------------------
(* Text: bytes are one-character strings; "xFF" is a byte that is not      *)
(* valid UTF-8.                                                            *)

Marker == <<"A","C","K",":","P","U","M","P","_","D","O","N","E">>

Whitespace == {"\n", " "}
Undecodable == {"xFF"}

\* What the Arduino may write back for one command (its firmware is not part
\* of the repository: free text, with no framing).
Chunks == { Marker \o <<"\n">>,
            <<"O","K","\n">>,
            <<"\n">>,
            <<"xFF">> }

\* bytes.decode(errors="ignore"): undecodable bytes are dropped.
IsDecodable(b) == b \notin Undecodable
Decode(bs) == SelectSeq(bs, IsDecodable)

\* str.strip(): leading and trailing whitespace removed.
RECURSIVE LStrip(_)
LStrip(s) == IF s # <<>> /\ Head(s) \in Whitespace THEN LStrip(Tail(s)) ELSE s
RECURSIVE RStrip(_)
RStrip(s) == IF s # <<>> /\ s[Len(s)] \in Whitespace
             THEN RStrip(SubSeq(s, 1, Len(s) - 1)) ELSE s
Strip(s) == RStrip(LStrip(s))

\* needle in s
Contains(needle, s) ==
    \E i \in 0..(Len(s) - Len(needle)) : SubSeq(s, i + 1, i + Len(needle)) = needle

Range(f) == {f[x] : x \in DOMAIN f}

\* The bytes of a tagged buffer.
BytesOf(buf) == [i \in 1..Len(buf) |-> buf[i].b]

\* ser.read_all().decode(errors="ignore").strip()
ReplyText(buf) == Strip(Decode(BytesOf(buf)))

-----------------------------------------------------------------------------
(* plant_bot.py: the serial session and the two handlers.                  *)

NoSession == [present |-> FALSE, is_open |-> FALSE]
OpenSession == [present |-> TRUE, is_open |-> TRUE]

\* Faulty variant: the handler does not look at the session.
SessionUsableUnchecked(s) == TRUE
\* `not (not ser or not ser.is_open)`
SessionUsable(s) == s.present /\ s.is_open

\* Faulty variant: the buffered bytes survive the reset.
ResetKeepsBytes(buf) == buf
\* ser.reset_input_buffer()
ResetInputBuffer(buf) == <<>>

\* asyncio.sleep(1) in status, asyncio.sleep(4) in water
Wait(cmd) == IF cmd = "STATUS" THEN WaitStatus ELSE WaitPump

\* Faulty variant: the reply is read before the sleep.
HandlerReadsEarly == <<"check", "reset", "write", "notify", "read", "sleep", "report">>
\* The statements of a handler, in source order.  "check" returns early when
\* the session is unusable; "notify", "sleep" and "report" each end in an await.
Handler == <<"check", "reset", "write", "notify", "sleep", "read", "report">>

Awaiting == Len(Handler) + 1     \* suspended in the last reply_text
Finished == 0                   \* the coroutine has returned

\* The message sent before the wait.
NotifyMsg(cmd) == IF cmd = "STATUS" THEN "Requesting" ELSE "WateringStarted"

\* Faulty variant: the marker is not looked for.
WaterReportNoAck(reply) ==
    IF reply # <<>> THEN "PumpText" ELSE "DoneNoResponse"
\* water: the if / elif / else on the reply.
WaterReport(reply) ==
    IF Contains(Marker, reply) THEN "WateringComplete"
    ELSE IF reply # <<>> THEN "PumpText"
    ELSE "DoneNoResponse"

\* status: `if not reply: reply = "No response"`, then the text is sent.
StatusReport(reply) == IF reply = <<>> THEN "NoResponse" ELSE "StatusText"

ReportMsg(cmd, reply) ==
    IF cmd = "STATUS" THEN StatusReport(reply) ELSE WaterReport(reply)

\* Faulty variant: the application built with concurrent_updates(True).
DispatchesConcurrently == TRUE
\* Application.builder().token(TOKEN).build(): concurrent_updates is left at
\* its default, so an update is processed to completion before the next.
CanDispatch == \A t \in 1..Len(tasks) : tasks[t].pc = Finished

NewTask(cmd) == [cmd |-> cmd, pc |-> 1, waited |-> 0, asleep |-> FALSE,
                 raw |-> <<>>, reply |-> <<>>, read |-> FALSE,
                 resetNo |-> 0, msgs |-> <<>>]

\* Handler t can run: the loop is already running it, or it is free to resume it.
Runnable(t) == t \in 1..Len(tasks) /\ loop \in {0, t}

Stmt(t) == IF tasks[t].pc \in 1..Len(Handler) THEN Handler[tasks[t].pc] ELSE "none"

InferIdle ==
    /\ prog = "none" /\ ipc = "idle" /\ classes = <<>> /\ args = <<>>
    /\ input_dtype = "none" /\ img_dtype = "none" /\ raw_out = <<>>
    /\ pre_boost = <<>> /\ output = <<>> /\ top = <<>> /\ best_idx = 0
    /\ err = "none"

\* Module load: serial.Serial(...) succeeds, or raises and ser stays None.
Init ==
    /\ ser \in {NoSession, OpenSession}
    /\ updates = <<>> /\ nrecv = 0 /\ tasks = <<>> /\ loop = 0
    /\ inbuf = <<>> /\ pending = {} /\ nresets = 0 /\ serlog = <<>>
    /\ InferIdle

\* run_polling: a /status or /water update arrives.
Receive(cmd) ==
    /\ nrecv < MaxUpdates
    /\ nrecv' = nrecv + 1
    /\ updates' = Append(updates, cmd)
    /\ UNCHANGED <<ser, tasks, loop, inbuf, pending, nresets, serlog, infvars>>

\* The application hands the next update to its handler, which starts running.
Dispatch ==
    /\ loop = 0 /\ updates # <<>> /\ CanDispatch
    /\ tasks' = Append(tasks, NewTask(Head(updates)))
    /\ updates' = Tail(updates)
    /\ loop' = Len(tasks) + 1
    /\ UNCHANGED <<ser, nrecv, inbuf, pending, nresets, serlog, infvars>>

\* `if not ser or not ser.is_open: await reply_text(...); return`
Check(t) ==
    /\ Runnable(t) /\ Stmt(t) = "check"
    /\ IF SessionUsable(ser)
       THEN /\ tasks' = [tasks EXCEPT ![t].pc = @ + 1]
            /\ loop' = t
       ELSE /\ tasks' = [tasks EXCEPT ![t].pc = Awaiting,
                                      ![t].msgs = Append(@, "NotConnected")]
            /\ loop' = 0
    /\ UNCHANGED <<ser, updates, nrecv, inbuf, pending, nresets, serlog, infvars>>

\* ser.reset_input_buffer()
Reset(t) ==
    /\ Runnable(t) /\ Stmt(t) = "reset"
    /\ inbuf' = ResetInputBuffer(inbuf)
    /\ nresets' = nresets + 1
    /\ tasks' = [tasks EXCEPT ![t].pc = @ + 1, ![t].resetNo = nresets + 1]
    /\ serlog' = Append(serlog, <<t, "reset">>)
    /\ loop' = t
    /\ UNCHANGED <<ser, updates, nrecv, pending, infvars>>

\* ser.write(b"STATUS\n") / ser.write(b"PUMP\n")
Write(t) ==
    /\ Runnable(t) /\ Stmt(t) = "write"
    /\ pending' = pending \cup {t}
    /\ tasks' = [tasks EXCEPT ![t].pc = @ + 1]
    /\ serlog' = Append(serlog, <<t, "write">>)
    /\ loop' = t
    /\ UNCHANGED <<ser, updates, nrecv, inbuf, nresets, infvars>>

\* await reply_text("Requesting plant status...") / ("Watering started...")
Notify(t) ==
    /\ Runnable(t) /\ Stmt(t) = "notify"
    /\ tasks' = [tasks EXCEPT ![t].pc = @ + 1,
                              ![t].msgs = Append(@, NotifyMsg(tasks[t].cmd))]
    /\ loop' = 0
    /\ UNCHANGED <<ser, updates, nrecv, inbuf, pending, nresets, serlog, infvars>>

\* await asyncio.sleep(n): the handler is resumed and suspends itself again.
BeginSleep(t) ==
    /\ Runnable(t) /\ Stmt(t) = "sleep" /\ ~tasks[t].asleep
    /\ tasks' = [tasks EXCEPT ![t].asleep = TRUE]
    /\ loop' = 0
    /\ UNCHANGED <<ser, updates, nrecv, inbuf, pending, nresets, serlog, infvars>>

\* One second passes.
Tick ==
    /\ \E t \in 1..Len(tasks) : tasks[t].asleep /\ tasks[t].waited < Wait(tasks[t].cmd)
    /\ tasks' = [t \in 1..Len(tasks) |->
                   IF tasks[t].asleep /\ tasks[t].waited < Wait(tasks[t].cmd)
                   THEN [tasks[t] EXCEPT !.waited = @ + 1] ELSE tasks[t]]
    /\ UNCHANGED <<ser, updates, nrecv, loop, inbuf, pending, nresets, serlog, infvars>>

\* The sleep is over: the loop resumes the handler.
Wake(t) ==
    /\ t \in 1..Len(tasks)
    /\ loop = 0 /\ Stmt(t) = "sleep" /\ tasks[t].asleep
    /\ tasks[t].waited = Wait(tasks[t].cmd)
    /\ tasks' = [tasks EXCEPT ![t].pc = @ + 1, ![t].asleep = FALSE]
    /\ loop' = t
    /\ serlog' = Append(serlog, <<t, "wait">>)
    /\ UNCHANGED <<ser, updates, nrecv, inbuf, pending, nresets, infvars>>

\* reply = ser.read_all().decode(errors="ignore").strip()
ReadAll(t) ==
    /\ Runnable(t) /\ Stmt(t) = "read"
    /\ tasks' = [tasks EXCEPT ![t].pc = @ + 1, ![t].raw = inbuf,
                              ![t].reply = ReplyText(inbuf), ![t].read = TRUE]
    /\ inbuf' = <<>>
    /\ serlog' = Append(serlog, <<t, "read">>)
    /\ loop' = t
    /\ UNCHANGED <<ser, updates, nrecv, pending, nresets, infvars>>

\* The handler's last reply_text, chosen from the reply.
Report(t) ==
    /\ Runnable(t) /\ Stmt(t) = "report"
    /\ tasks' = [tasks EXCEPT ![t].pc = Awaiting,
                   ![t].msgs = Append(@, ReportMsg(tasks[t].cmd, tasks[t].reply))]
    /\ loop' = 0
    /\ UNCHANGED <<ser, updates, nrecv, inbuf, pending, nresets, serlog, infvars>>

\* The last reply_text completes and the handler returns.
Return(t) ==
    /\ t \in 1..Len(tasks)
    /\ loop = 0 /\ tasks[t].pc = Awaiting
    /\ tasks' = [tasks EXCEPT ![t].pc = Finished]
    /\ UNCHANGED <<ser, updates, nrecv, loop, inbuf, pending, nresets, serlog, infvars>>

\* The Arduino answers a command it has received, whenever it gets to it.
PeripheralReply(e, chunk) ==
    /\ e \in pending
    /\ pending' = pending \ {e}
    /\ inbuf' = inbuf \o [i \in 1..Len(chunk) |->
                            [b |-> chunk[i], ex |-> e, at |-> nresets]]
    /\ UNCHANGED <<ser, updates, nrecv, tasks, loop, nresets, serlog, infvars>>

Next ==
    \/ \E cmd \in {"STATUS", "PUMP"} : Receive(cmd)
    \/ Dispatch
    \/ \E t \in 1..MaxUpdates :
          \/ Check(t) \/ Reset(t) \/ Write(t) \/ Notify(t) \/ BeginSleep(t)
          \/ Wake(t) \/ ReadAll(t) \/ Report(t) \/ Return(t)
    \/ Tick
    \/ \E e \in 1..MaxUpdates, chunk \in Chunks : PeripheralReply(e, chunk)

Spec == Init /\ [][Next]_vars

-----------------------------------------------------------------------------
(* Inference: numbers.                                                     *)
(*                                                                         *)
(* A vector of floats is [v, d, nan]: element i is v[i]/d (d > 0), or NaN  *)
(* when i \in nan.  Arithmetic is exact; an infinity only ever appears      *)
(* inside the temperature stage and is divided away there.                 *)

Idx == 1..NumClasses

RECURSIVE SumTo(_, _)
SumTo(v, n) == IF n = 0 THEN 0 ELSE v[n] + SumTo(v, n - 1)
Sum(v) == SumTo(v, Len(v))

RECURSIVE Pow(_, _)
Pow(x, e) == IF e = 0 THEN 1 ELSE x * Pow(x, e - 1)

AllNaN == [v |-> [i \in Idx |-> 0], d |-> 1, nan |-> Idx]

\* x / np.sum(x), x given by numerators over one denominator.
Divide(x) ==
    IF x.nan # {} \/ Sum(x.v) = 0 THEN AllNaN
    ELSE [v |-> x.v, d |-> Sum(x.v), nan |-> {}]

\* The vectors the model can hand back: nothing says they sum to 1.
ModelOutputs == { [v |-> f, d |-> Den, nan |-> {}] : f \in [Idx -> 0..Den] }

\* The temperatures, <<numerator, denominator>>: 0, 0.5 and 1.0.  (A
\* temperature is kept only if x^(1/T) is rational for every rational x.)
Temps == { <<0, 1>>, <<1, 2>>, <<1, 1>> }

\* The boosts, <<numerator, denominator>>: 0, 0.25 (the default) and 0.5.
Boosts == { <<0, 1>>, <<1, 4>>, <<1, 2>> }

\* exp(log(output + 1e-9) / temp) / sum, for temp # 1.0.
\* temp > 0: element i becomes (output[i] + eps)^(1/temp), then the division.
\* temp = 0: log(..)/0.0 is -inf, +inf or nan as output[i] + eps is below,
\* above or equal to 1; exp gives 0, inf, nan; the division by the sum (0,
\* inf or nan) gives nan wherever it is 0/0, inf/inf or involves a nan.
TemperatureScale(x, temp) ==
    IF x.nan # {} THEN AllNaN
    ELSE IF temp[1] = 0 THEN
        LET above == {i \in Idx : x.v[i] * EpsDen + x.d > x.d * EpsDen}
            equal == {i \in Idx : x.v[i] * EpsDen + x.d = x.d * EpsDen}
        IN  IF equal # {} \/ above = {} THEN AllNaN
            ELSE [v |-> [i \in Idx |-> 0], d |-> 1, nan |-> above]
    ELSE Divide([v |-> [i \in Idx |-> Pow(x.v[i] * EpsDen + x.d, temp[2] \div temp[1])],
                 d |-> 1, nan |-> {}])

\* str.lower() on the letters the labels use.
Lower(ch) ==
    CASE ch = "C" -> "c" [] ch = "A" -> "a" [] ch = "T" -> "t"
      [] ch = "R" -> "r" [] ch = "F" -> "f" [] OTHER -> ch
LowerStr(s) == [i \in 1..Len(s) |-> Lower(s[i])]

\* prefer_lower in cls.lower()
Matches(prefer, cls) == Contains(LowerStr(prefer), LowerStr(cls))

\* Faulty variant: (1.0 - boost).
BoostFactorInverted(boost) == <<boost[2] - boost[1], boost[2]>>
\* output[i] *= (1.0 + boost), as numerator and denominator
BoostFactor(boost) == <<boost[2] + boost[1], boost[2]>>

\* The loop over the classes: every matching class is multiplied.
BiasBoost(x, labels, prefer, boost) ==
    [v |-> [i \in Idx |-> IF Matches(prefer, labels[i])
                          THEN x.v[i] * BoostFactor(boost)[1]
                          ELSE x.v[i] * BoostFactor(boost)[2]],
     d |-> x.d * BoostFactor(boost)[2],
     nan |-> x.nan]

\* The order np.argsort sorts by: nan after every number.
Less(x, i, j) ==
    IF i \in x.nan THEN FALSE
    ELSE IF j \in x.nan THEN TRUE
    ELSE x.v[i] < x.v[j]
Same(x, i, j) == ~Less(x, i, j) /\ ~Less(x, j, i)

\* np.argsort(x): an ascending order of the indices.  The default kind is
\* not stable, so the order of equal elements is any.
Argsorts(x) ==
    { p \in [Idx -> Idx] :
        /\ \A i, j \in Idx : i # j => p[i] # p[j]
        /\ \A i, j \in Idx : i < j => ~Less(x, p[j], p[i]) }

\* p[-k:][::-1]
TopK(p, k) ==
    LET n == IF k < NumClasses THEN k ELSE NumClasses
    IN  [i \in 1..n |-> p[NumClasses + 1 - i]]

\* np.argmax(x): the first index holding the maximum.
Argmax(x) ==
    CHOOSE i \in Idx :
        /\ \A j \in Idx : ~Less(x, i, j)
        /\ \A j \in Idx : (j < i) => Less(x, j, i)

-----------------------------------------------------------------------------
(* Inference: the two programs.                                            *)

Dtypes == {"uint8", "float32", "int8"}

rose == <<"r", "o", "s", "e">>
cactus == <<"C", "a", "c", "t", "u", "s">>
fern == <<"f", "e", "r", "n">>
cacti == <<"c", "a", "c", "t", "i">>
LabelPool == <<rose, cactus, fern, cacti>>

\* labels.txt: NumClasses names.
LabelLists ==
    { [i \in Idx |-> LabelPool[((i - 1 + r) % Len(LabelPool)) + 1]] : r \in 0..1 }

\* --prefer: none, or a substring.
Prefers == { <<>>, <<"C", "A", "C", "T">>, rose }

NoArgs == [temp |-> <<1, 1>>, prefer |-> <<>>, boost |-> <<1, 4>>]

\* Faulty variant: the image is cast to whatever dtype the model declares.
ScanCastToModel(dtype) == dtype
\* classify_image: uint8 stays uint8, every other dtype is fed as float32.
ScanCast(dtype) == IF dtype = "uint8" THEN "uint8" ELSE "float32"

BotIdle ==
    /\ ser = NoSession /\ updates = <<>> /\ nrecv = 0 /\ tasks = <<>>
    /\ loop = 0 /\ inbuf = <<>> /\ pending = {} /\ nresets = 0 /\ serlog = <<>>

InitInfer ==
    /\ BotIdle
    /\ prog \in {"scan", "diag"}
    /\ ipc = "preprocess"
    /\ classes \in LabelLists
    /\ input_dtype \in Dtypes
    /\ args \in IF prog = "scan" THEN {NoArgs}
                ELSE [temp : Temps, prefer : Prefers, boost : Boosts]
    /\ img_dtype = "none" /\ raw_out = <<>> /\ pre_boost = <<>>
    /\ output = <<>> /\ top = <<>> /\ best_idx = 0 /\ err = "none"

\* classify_image: `if dtype == np.uint8: ... else: ...`
ScanPreprocess ==
    /\ prog = "scan" /\ ipc = "preprocess"
    /\ img_dtype' = ScanCast(input_dtype)
    /\ ipc' = "set_tensor"
    /\ UNCHANGED <<botvars, prog, classes, args, input_dtype, raw_out,
                   pre_boost, output, top, best_idx, err>>

\* The script: float32, uint8, or `raise ValueError("Unsupported input dtype")`.
DiagPreprocess ==
    /\ prog = "diag" /\ ipc = "preprocess"
    /\ IF input_dtype \in {"float32", "uint8"}
       THEN img_dtype' = input_dtype /\ ipc' = "set_tensor" /\ err' = err
       ELSE img_dtype' = img_dtype /\ ipc' = "failed" /\ err' = "UnsupportedDtype"
    /\ UNCHANGED <<botvars, prog, classes, args, input_dtype, raw_out,
                   pre_boost, output, top, best_idx>>

\* interpreter.set_tensor(index, arr): TFLite raises ValueError ("Cannot set
\* tensor: Got value of type ... but expected type ...") unless the array's
\* dtype is the tensor's.
SetTensor ==
    /\ ipc = "set_tensor"
    /\ IF img_dtype = input_dtype
       THEN ipc' = "invoke" /\ err' = err
       ELSE ipc' = "failed" /\ err' = "TensorTypeMismatch"
    /\ UNCHANGED <<botvars, prog, classes, args, input_dtype, img_dtype, raw_out,
                   pre_boost, output, top, best_idx>>

\* interpreter.invoke(); out = interpreter.get_tensor(index)[0]
Invoke ==
    /\ ipc = "invoke"
    /\ \E x \in ModelOutputs : raw_out' = x /\ output' = x
    /\ ipc' = IF prog = "scan" THEN "rank" ELSE "temperature"
    /\ UNCHANGED <<botvars, prog, classes, args, input_dtype, img_dtype,
                   pre_boost, top, best_idx, err>>

\* classify_image: top_idx = np.argsort(out)[-3:][::-1]; preds follow top_idx.
ScanRank ==
    /\ prog = "scan" /\ ipc = "rank"
    /\ \E p \in Argsorts(output) : top' = TopK(p, TopScan)
    /\ ipc' = "done"
    /\ UNCHANGED <<botvars, prog, classes, args, input_dtype, img_dtype, raw_out,
                   pre_boost, output, best_idx, err>>

\* `if args.temp != 1.0:` the temperature scaling
DiagTemperature ==
    /\ prog = "diag" /\ ipc = "temperature"
    /\ output' = IF args.temp[1] # args.temp[2]
                 THEN TemperatureScale(output, args.temp) ELSE output
    /\ ipc' = "boost"
    /\ UNCHANGED <<botvars, prog, classes, args, input_dtype, img_dtype, raw_out,
                   pre_boost, top, best_idx, err>>

\* `if args.prefer:` the bias boost
DiagBoost ==
    /\ prog = "diag" /\ ipc = "boost"
    /\ pre_boost' = output
    /\ output' = IF args.prefer # <<>>
                 THEN BiasBoost(output, classes, args.prefer, args.boost) ELSE output
    /\ ipc' = "normalize"
    /\ UNCHANGED <<botvars, prog, classes, args, input_dtype, img_dtype, raw_out,
                   top, best_idx, err>>

\* output = output / np.sum(output), outside the `if args.prefer:`
DiagNormalize ==
    /\ prog = "diag" /\ ipc = "normalize"
    /\ output' = Divide(output)
    /\ ipc' = "display"
    /\ UNCHANGED <<botvars, prog, classes, args, input_dtype, img_dtype, raw_out,
                   pre_boost, top, best_idx, err>>

\* top5 = np.argsort(output)[-5:][::-1]; best_idx = int(np.argmax(output))
DiagDisplay ==
    /\ prog = "diag" /\ ipc = "display"
    /\ \E p \in Argsorts(output) : top' = TopK(p, TopDiag)
    /\ best_idx' = Argmax(output)
    /\ ipc' = "done"
    /\ UNCHANGED <<botvars, prog, classes, args, input_dtype, img_dtype, raw_out,
                   pre_boost, output, err>>

NextInfer ==
    \/ ScanPreprocess \/ DiagPreprocess \/ SetTensor \/ Invoke \/ ScanRank
    \/ DiagTemperature \/ DiagBoost \/ DiagNormalize \/ DiagDisplay

SpecInfer == InitInfer /\ [][NextInfer]_vars

-----------------------------------------------------------------------------
(* Properties of the serial protocol (Spec).                               *)

IsPrefix(a, b) == Len(a) <= Len(b) /\ SubSeq(b, 1, Len(a)) = a

\* The serial operations of handler t, in the order they happened.
OpsOf(t) ==
    LET mine == SelectSeq(serlog, LAMBDA e : e[1] = t)
    IN  [i \in 1..Len(mine) |-> mine[i][2]]

ExchangeOrder == <<"reset", "write", "wait", "read">>

Completed(t) == tasks[t].pc \in {Awaiting, Finished}

\* Handler t has written its command and not yet drained the reply.
InFlight(t) == <<t, "write">> \in Range(serlog) /\ <<t, "read">> \notin Range(serlog)

Outcome(msg) ==
    CASE msg = "WateringComplete" -> "Acknowledged"
      [] msg \in {"PumpText", "StatusText"} -> "UnrecognizedReply"
      [] msg \in {"DoneNoResponse", "NoResponse"} -> "Silence"
      [] OTHER -> "none"

Reported(t) == Completed(t) /\ tasks[t].read

\* C1: on an open session every exchange, STATUS or PUMP, discards the input
\* buffer, writes the command, waits out the fixed window and then drains the
\* reply, in this order and each once; nothing reads the buffer between the
\* write and the end of the wait.
C1_ExchangeOrder ==
    \A t \in 1..Len(tasks) :
        /\ IsPrefix(OpsOf(t), ExchangeOrder)
        /\ (Completed(t) /\ ser = OpenSession) => OpsOf(t) = ExchangeOrder
        /\ <<t, "wait">> \in Range(serlog) => tasks[t].waited = Wait(tasks[t].cmd)
        /\ <<t, "wait">> \notin Range(serlog) => ~tasks[t].read
        /\ \A i, j \in 1..Len(serlog) :
              (i < j /\ serlog[i] = <<t, "write">> /\ serlog[j][2] = "read")
              => \E k \in (i + 1)..(j - 1) : serlog[k] = <<t, "wait">>

\* A STATUS and a PUMP exchange have both run to completion.
C1_Witness ==
    \E t, u \in 1..Len(tasks) :
        /\ tasks[t].cmd = "STATUS" /\ tasks[u].cmd = "PUMP"
        /\ tasks[t].pc = Finished /\ tasks[u].pc = Finished
        /\ OpsOf(t) = ExchangeOrder /\ OpsOf(u) = ExchangeOrder
        /\ tasks[u].waited = WaitPump

C3_OneInFlight ==
    /\ Cardinality({t \in 1..Len(tasks) : InFlight(t)}) <= 1
    /\ \A i, j \in 1..Len(serlog) :
          (/\ i < j
           /\ serlog[i][2] = "write"
           /\ serlog[j][1] # serlog[i][1]
           /\ serlog[j][2] \in {"reset", "write"})
          => \E k \in (i + 1)..(j - 1) : serlog[k] = <<serlog[i][1], "read">>

\* A second request arrived while a command was in flight, and was served
\* afterwards.
C3_Witness ==
    /\ Len(tasks) = 2
    /\ tasks[1].read /\ tasks[2].read
    /\ tasks[2].pc = Finished
    /\ \E i \in 1..Len(serlog) : serlog[i] = <<2, "write">>

\* C4 as stated: the reply drained for a command never holds bytes the
\* peripheral emitted in response to an earlier command.
C4_NoEarlierCommandBytes ==
    \A t \in 1..Len(tasks) :
        \A i \in 1..Len(tasks[t].raw) : tasks[t].raw[i].ex = t

\* C4 amended: the reply drained for a command never holds bytes that were
\* received before that command's reset of the input buffer; bytes the
\* peripheral emits for an earlier command after the reset are part of the
\* reply.
C4_NoBytesFromBeforeReset ==
    \A t \in 1..Len(tasks) :
        \A i \in 1..Len(tasks[t].raw) : tasks[t].raw[i].at >= tasks[t].resetNo

\* Bytes answering the first command arrived before the second command's
\* reset and were discarded by it: the second reply is empty.
C4_Witness ==
    /\ Len(tasks) = 2
    /\ tasks[1].read /\ tasks[1].raw = <<>>
    /\ 1 \notin pending
    /\ tasks[2].read /\ tasks[2].raw = <<>>
    /\ tasks[2].resetNo = 2

\* C5: with the session absent or not open a request touches nothing of the
\* serial port (no reset, no write, no read), reports the condition once, and
\* neither reopens the session nor retries.
C5_Unavailable ==
    ~(ser.present /\ ser.is_open) =>
        /\ serlog = <<>> /\ nresets = 0 /\ pending = {} /\ inbuf = <<>>
        /\ ser = NoSession
        /\ Len(tasks) + Len(updates) = nrecv
        /\ \A t \in 1..Len(tasks) :
              /\ ~tasks[t].read /\ tasks[t].waited = 0
              /\ tasks[t].msgs \in {<<>>, <<"NotConnected">>}
              /\ Completed(t) => tasks[t].msgs = <<"NotConnected">>

\* Both a /status and a /water request were refused.
C5_Witness ==
    /\ ser = NoSession
    /\ \E t, u \in 1..Len(tasks) :
          /\ tasks[t].cmd = "STATUS" /\ tasks[u].cmd = "PUMP"
          /\ tasks[t].pc = Finished /\ tasks[u].pc = Finished
          /\ tasks[t].msgs = <<"NotConnected">> /\ tasks[u].msgs = <<"NotConnected">>

-----------------------------------------------------------------------------
(* Properties of the inference paths (SpecInfer).                          *)

\* Element i of x and element j of y are the same number.
ValEq(x, i, y, j) ==
    /\ i \notin x.nan /\ j \notin y.nan
    /\ x.v[i] * y.d = y.v[j] * x.d

\* Non-negative (by construction), no nan, and summing to 1.
SumsToOne(x) == x.nan = {} /\ Sum(x.v) = x.d

Matching == {i \in Idx : Matches(args.prefer, classes[i])}

\* How many classes not matching the substring rank strictly above class i.
NonMatchAbove(x, i) == Cardinality({j \in Idx \ Matching : Less(x, i, j)})

\* C6 as stated: the ranked output (top-3 of the live scan, top-5 of the
\* diagnostic script) is by probability descending, and of two classes with
\* equal probability the one with the smaller class index comes first.
C6_DescendingTiesByIndex ==
    ipc = "done" =>
        \A k, l \in 1..Len(top) : k < l =>
            /\ ~Less(output, top[k], top[l])
            /\ Same(output, top[k], top[l]) => top[k] < top[l]

\* C7 as stated: with temperature 1.0 and boost 0.0 or no preferred
\* substring the post-processed vector has the values and the ranking of the
\* model's output vector, whatever that vector is.  (Stated for the output
\* vectors with a positive sum, where no division by zero is involved.)
C7_Identity ==
    (/\ prog = "diag" /\ ipc = "done"
     /\ Sum(raw_out.v) > 0
     /\ args.temp = <<1, 1>>
     /\ (args.boost[1] = 0 \/ args.prefer = <<>>))
    => /\ \A i \in Idx : ValEq(output, i, raw_out, i)
       /\ \A i, j \in Idx : Less(output, i, j) <=> Less(raw_out, i, j)

C9_SumsToOne ==
    (prog = "diag" /\ ipc \in {"display", "done"} /\ SumsToOne(raw_out))
    => SumsToOne(output)

\* What does hold of the code: with a temperature above 0 the post-processed
\* vector of a valid probability vector sums to 1.
SumsToOneAboveZeroTemperature ==
    (/\ prog = "diag" /\ ipc \in {"display", "done"} /\ SumsToOne(raw_out)
     /\ args.temp[1] > 0)
    => SumsToOne(output)

\* C10 as stated: a boosted class (label containing the substring, boost > 0)
\* strictly improves its position relative to the classes not matching the
\* substring, unless it already was at rank 0.  (Stated for the boosted
\* classes of positive probability in a vector without nan.)
C10_BoostStrictlyRaises ==
    (/\ prog = "diag" /\ ipc \in {"display", "done"}
     /\ args.prefer # <<>> /\ args.boost[1] > 0
     /\ pre_boost.nan = {})
    => \A i \in Matching :
          \/ pre_boost.v[i] = 0
          \/ \A j \in Idx : ~Less(pre_boost, i, j)
          \/ NonMatchAbove(output, i) < NonMatchAbove(pre_boost, i)

\* C10 amended: a boosted class never loses position relative to the classes
\* not matching the substring: a non-matching class that was not above it
\* before the boost is not above it after; its position improves only where
\* the boosted probability overtakes a non-matching class.
C10_BoostNeverLowers ==
    (/\ prog = "diag" /\ ipc \in {"display", "done"}
     /\ args.prefer # <<>> /\ args.boost[1] > 0)
    => \A i \in Matching :
          /\ NonMatchAbove(output, i) <= NonMatchAbove(pre_boost, i)
          /\ \A j \in Idx \ Matching :
                ~Less(pre_boost, i, j) => ~Less(output, i, j)

\* A boosted class overtook a class not matching the substring.
C10_Witness ==
    /\ prog = "diag" /\ ipc = "done"
    /\ args.prefer # <<>> /\ args.boost[1] > 0
    /\ output.nan = {}
    /\ \E i \in Matching :
          /\ NonMatchAbove(pre_boost, i) > 0
          /\ NonMatchAbove(output, i) < NonMatchAbove(pre_boost, i)

====
